---- MODULE Spec2Model ----
(***************************************************************************)
(* A model of the cache subsystem of IndCat (src/app.py): the global       *)
(* movie_cache guarded by cache_lock, the populate run                     *)
(* fetch_and_cache_movies executed by background threads, and the catalog  *)
(* and refresh request handlers.                                           *)
(*                                                                         *)
(* The upstream metadata API is the environment: every discovery request   *)
(* answers with a transport error, a non-200 status, an empty page or a    *)
(* page of records, and every record carries the answers its two           *)
(* enrichment lookups will give.                                           *)
(*                                                                         *)
(* Specifications:                                                         *)
(*   Spec         catalog reads, refreshes and overlapping populate runs   *)
(*   SpecReads    Spec without refresh                                     *)
(*   SpecFetch    the first run, pages of every kind of record             *)
(*   SpecPage     one run producing a long list, reads at large offsets    *)
(*   SpecCeiling  a run against an upstream that never ends, then runs     *)
(*                that overlap, with the fairness of thread scheduling     *)
(*   SpecRuns     the first run, over several pages, with failing lookups  *)
(*   SpecRefresh  refreshes of one and of two categories, with fairness    *)
(*   SpecConfig   requests with every kind of configuration string         *)
(*   SpecKeys     api keys and categories that contain the key separator   *)
(*   SpecFrame    two categories of one credential, one request at a time  *)
(*   SpecLock     catalog reads and runs, with fairness of lock holders    *)
(*   SpecOverlap  overlapping runs that start in the order of their slots  *)
(***************************************************************************)
EXTENDS Integers, Sequences, FiniteSets, TLC

VARIABLES
    movie_cache,   \* app.py:17   cache_key -> list of cached movies
    cache_lock,    \* app.py:18   who holds the lock
    thr,           \* background threads: position and locals of the populate run
    hnd,           \* request handlers: position, arguments, last response
    received,      \* history: per thread, what the upstream has delivered to
                   \* the current run: the eligible records in order of
                   \* arrival, the number of other records, the number of
                   \* pages, and whether a record had a failing lookup, was
                   \* no JSON object, or was eligible and came after a
                   \* failing lookup (on its page, on a later page)
    delivered      \* history: every eligible record the upstream ever delivered

vars == <<movie_cache, cache_lock, thr, hnd, received, delivered>>

\* ------------------------------------------------------------------ bounds
MaxThreads == 2        \* background threads alive at once
MaxPages == 1          \* discovery pages of a run that may carry records (Spec)
MaxPerPage == 2        \* records on one discovery page (SpecFetch)
MaxOver == 20          \* cached lists hold up to PageSize + MaxOver items (SpecPage)

\* ------------------------------------------------------- program constants
PageStop == 1000       \* range(1, 1000): pages 1..999
PageSize == 100        \* end = skip + 100

Threads == 1..MaxThreads

\* The catalog request being served and the refresh request being served:
\* one request of each route at a time.
Handlers == {"catalog", "refresh"}

\* -------------------------------------------------------------- the lock
Free == [kind |-> "free", id |-> 0]
HeldByThread(t) == [kind |-> "thread", id |-> t]
HeldByHandler == [kind |-> "handler", id |-> 0]

\* ------------------------------------------------------- upstream records
\* One element of a discovery page together with what the enrichment
\* lookups for it will answer.
\*   dict     FALSE: the element is not a JSON object (movie.get raises)
\*   id       0 stands for a missing, null or zero id (falsy)
\*   title    "" stands for a missing, null or empty title (falsy)
\*   poster_path, backdrop_path  "" stands for missing or null
\*   overview, release_date      "" stands for missing
\*   prov     "error": the providers request or its JSON raises
\*            "none": no results / no IN / no flatrate key
\*            "flatrate": results.IN has the key flatrate
\*   ext      "error": the external_ids request raises, "ok" otherwise
\*   imdb_id  the imdb_id of the external_ids answer, "" for null or ""
Raw(id, title, poster, prov, ext, imdb) ==
    [dict |-> TRUE, id |-> id, title |-> title, poster_path |-> poster,
     backdrop_path |-> "", overview |-> "", release_date |-> "",
     prov |-> prov, ext |-> ext, imdb_id |-> imdb]

Good1 ==
    [Raw(1, "A", "/a.jpg", "flatrate", "ok", "tt1") EXCEPT
        !.backdrop_path = "/b.jpg", !.overview = "about A",
        !.release_date = "2024-01-05"]
Good2 == Raw(2, "B", "", "flatrate", "ok", "tt2")
Dup1 == Raw(3, "C", "", "flatrate", "ok", "tt1")
\* Records that differ from a good one in a single respect.
NotDict == [Raw(4, "D", "", "flatrate", "ok", "tt4") EXCEPT !.dict = FALSE]
NoId == Raw(0, "E", "", "flatrate", "ok", "tt5")
NoTitle == Raw(6, "", "", "flatrate", "ok", "tt6")
ProvError == Raw(7, "G", "", "error", "ok", "tt7")
NoFlatrate == Raw(8, "H", "", "none", "ok", "tt8")
ExtError == Raw(9, "I", "", "flatrate", "error", "tt9")
NoImdb == Raw(10, "J", "", "flatrate", "ok", "")
NameImdb == Raw(11, "K", "", "flatrate", "ok", "nm1")
ShortImdb == Raw(12, "L", "", "flatrate", "ok", "t")

\* ------------------------------------------------ fetch_and_cache_movies
\* cache_key = f"{api_key}_{language}"
CacheKey(api_key, language) == api_key \o "_" \o language

\* imdb_id.startswith("tt")
StartsWithTT(s) == Len(s) >= 2 /\ SubSeq(s, 1, 2) = "tt"

\* The movie dict as it is appended to final_movies: the discovery record
\* with movie["imdb_id"] set.
CachedMovie(movie) ==
    [id |-> movie.id, title |-> movie.title,
     poster_path |-> movie.poster_path, backdrop_path |-> movie.backdrop_path,
     overview |-> movie.overview, release_date |-> movie.release_date,
     imdb_id |-> movie.imdb_id]

\* HasIdAndTitle without the test of the title.
HasIdOnly(movie) == movie.id # 0

\* app.py:53     if not movie_id or not title: continue
HasIdAndTitle(movie) == movie.id # 0 /\ movie.title # ""

\* ImdbAccepted without the startswith("tt") test.
ImdbAcceptedAnyNonEmpty(imdb_id) == imdb_id # ""

\* app.py:71     if imdb_id and imdb_id.startswith("tt")
ImdbAccepted(imdb_id) == imdb_id # "" /\ StartsWithTT(imdb_id)

\* ProcessMovie with final_movies.insert(0, movie) for the append.
ProcessMoviePrepend(final_movies, movie) ==
    IF ~HasIdAndTitle(movie) THEN final_movies
    ELSE IF movie.prov = "error" THEN final_movies
    ELSE IF movie.prov # "flatrate" THEN final_movies
    ELSE IF movie.ext = "error" THEN final_movies
    ELSE IF ImdbAccepted(movie.imdb_id)
         THEN <<CachedMovie(movie)>> \o final_movies
         ELSE final_movies

\* app.py:51-76  the body of `for movie in results` for a JSON object
ProcessMovie(final_movies, movie) ==
    IF ~HasIdAndTitle(movie) THEN final_movies               \* continue
    ELSE IF movie.prov = "error" THEN final_movies           \* except: continue
    ELSE IF movie.prov # "flatrate" THEN final_movies
    ELSE IF movie.ext = "error" THEN final_movies            \* except: continue
    ELSE IF ImdbAccepted(movie.imdb_id)
         THEN Append(final_movies, CachedMovie(movie))
         ELSE final_movies

\* app.py:50-54  the loop over the rest of a page passes over the JSON
\* objects without id or without title and makes no request for them
RECURSIVE SkipNoRequest(_)
SkipNoRequest(results) ==
    IF results # <<>> /\ results[1].dict /\ ~HasIdAndTitle(results[1])
    THEN SkipNoRequest(Tail(results))
    ELSE results

\* AfterLookupError with `break` for the `continue` of the inner except.
AfterLookupErrorBreak(results) == <<>>

\* app.py:74-76  except ...: continue. The records the loop has still to
\* visit after a lookup for the head of results has raised.
AfterLookupError(results) == Tail(results)

\* DedupStep without the `imdb_id not in seen_ids` test.
DedupStepKeepAll(acc, movie) ==
    [seen_ids |-> acc.seen_ids \cup {movie.imdb_id},
     unique_movies |-> Append(acc.unique_movies, movie)]

\* app.py:85-89  one iteration of the deduplication loop
DedupStep(acc, movie) ==
    IF movie.imdb_id # "" /\ movie.imdb_id \notin acc.seen_ids
    THEN [seen_ids |-> acc.seen_ids \cup {movie.imdb_id},
          unique_movies |-> Append(acc.unique_movies, movie)]
    ELSE acc

\* TRUE once v has been computed: makes the first half of a loop finish
\* before the second half starts.
Computed(v) == v = v

\* app.py:83-89  the loop, over the first half and then the second half
RECURSIVE DedupLoop(_, _)
DedupLoop(acc, final_movies) ==
    IF final_movies = <<>> THEN acc
    ELSE IF Len(final_movies) = 1 THEN DedupStep(acc, final_movies[1])
    ELSE LET half == Len(final_movies) \div 2
             first == DedupLoop(acc, SubSeq(final_movies, 1, half))
         IN IF Computed(first)
            THEN DedupLoop(first, SubSeq(final_movies, half + 1,
                                         Len(final_movies)))
            ELSE acc

\* app.py:82-89
Dedup(final_movies) ==
    DedupLoop([seen_ids |-> {}, unique_movies |-> <<>>], final_movies).unique_movies

\* ------------------------------------------------------- to_stremio_meta
None == [none |-> TRUE]

\* app.py:97-116; "" stands for the None of poster and background
to_stremio_meta(movie) ==
    IF movie.imdb_id = "" \/ movie.title = "" THEN None
    ELSE [id |-> movie.imdb_id, type |-> "movie", name |-> movie.title,
          poster |-> IF movie.poster_path # ""
                     THEN "https://image.tmdb.org/t/p/w500" \o movie.poster_path
                     ELSE "",
          description |-> movie.overview,
          releaseInfo |-> movie.release_date,
          background |-> IF movie.backdrop_path # ""
                         THEN "https://image.tmdb.org/t/p/w780" \o movie.backdrop_path
                         ELSE ""]

\* ------------------------------------------------------------ pagination
Min(a, b) == IF a < b THEN a ELSE b
Max(a, b) == IF a > b THEN a ELSE b

\* Python's list[start:end] for integer bounds (0-based, negative bounds
\* count from the end, out-of-range bounds are clamped).
PySlice(list, start, end) ==
    LET n == Len(list)
        lo == IF start < 0 THEN Max(n + start, 0) ELSE Min(start, n)
        hi == IF end < 0 THEN Max(n + end, 0) ELSE Min(end, n)
    IN IF lo >= hi THEN <<>> ELSE SubSeq(list, lo + 1, hi)

\* Paginate with a skip past the end answered by the last page.
PaginateLastPage(cached_movies, skip) ==
    PySlice(cached_movies, Min(skip, Max(Len(cached_movies) - PageSize, 0)),
            Min(skip, Max(Len(cached_movies) - PageSize, 0)) + PageSize)

\* app.py:510-511
Paginate(cached_movies, skip) == PySlice(cached_movies, skip, skip + PageSize)

RECURSIVE ConvertAll(_)
\* app.py:514  [meta for meta in (to_stremio_meta(m) for m in ...) if meta]
ConvertAll(movies) ==
    IF movies = <<>> THEN <<>>
    ELSE IF Len(movies) = 1
    THEN LET meta == to_stremio_meta(movies[1])
         IN IF meta = None THEN <<>> ELSE <<meta>>
    ELSE LET half == Len(movies) \div 2
         IN ConvertAll(SubSeq(movies, 1, half))
               \o ConvertAll(SubSeq(movies, half + 1, Len(movies)))

\* ---------------------------------------------------- decode_user_config
\* The configuration strings of the model and what base64 + JSON decoding
\* gives for each; NoConfig is the None of the except branch.
NoConfig == [valid |-> FALSE, truthy |-> FALSE, has_api_key |-> FALSE,
             api_key |-> "", languages |-> <<>>]
Config(truthy, has_key, api_key, languages) ==
    [valid |-> TRUE, truthy |-> truthy, has_api_key |-> has_key,
     api_key |-> api_key, languages |-> languages]

CfgBad == "!!"                                    \* not base64 of JSON
CfgA == "eyJhcGlfa2V5IjogImEifQ=="               \* {"api_key": "a"}
CfgAMlTa == "eyJhcGlfa2V5IjogImEiLCAibGFuZ3VhZ2VzIjogWyJtbCIsICJ0YSJdfQ=="
                                   \* {"api_key": "a", "languages": ["ml", "ta"]}
CfgNoKey == "eyJsYW5ndWFnZXMiOiBbIm1sIl19"       \* {"languages": ["ml"]}
CfgEmptyKey == "eyJhcGlfa2V5IjogIiJ9"            \* {"api_key": ""}
CfgEmpty == "e30="                                \* {}
CfgAUnderB == "eyJhcGlfa2V5IjogImFfYiJ9"         \* {"api_key": "a_b"}

\* app.py:118-124; languages is config.get("languages", ["ml"]) of app.py:529
decode_user_config(config_string) ==
    CASE config_string = CfgA -> Config(TRUE, TRUE, "a", <<"ml">>)
      [] config_string = CfgAMlTa -> Config(TRUE, TRUE, "a", <<"ml", "ta">>)
      [] config_string = CfgNoKey -> Config(TRUE, FALSE, "", <<"ml">>)
      [] config_string = CfgEmptyKey -> Config(TRUE, TRUE, "", <<"ml">>)
      [] config_string = CfgEmpty -> Config(FALSE, FALSE, "", <<"ml">>)
      [] config_string = CfgAUnderB -> Config(TRUE, TRUE, "a_b", <<"ml">>)
      [] OTHER -> NoConfig

\* app.py:487, 525   if not config or "api_key" not in config
ConfigRejected(config) == ~config.valid \/ ~config.truthy \/ ~config.has_api_key

\* ------------------------------------------------------------- threads
\* pc is the position of the thread:
\*   "page"    before the discovery request of app.py:40
\*   "prov"    before the providers request of app.py:59 for Head(results)
\*   "ext"     before the external_ids request of app.py:67 for Head(results)
\*   "store"   before `with cache_lock` of app.py:91
\*   "locked"  inside it
\*   "returned", "done"   after the run, with and without a language to do
\* results are the records of the current page the loop has still to visit.
IdleThread ==
    [pc |-> "idle", api_key |-> "", language |-> "",
     todo |-> <<>>, page |-> 0, requested |-> 0, results |-> <<>>,
     final_movies |-> <<>>, stop |-> ""]

\* The locals of fetch_and_cache_movies(api_key, language) on entry
\* (app.py:20-28); todo are the languages do_refresh has still to visit.
StartRun(api_key, language, todo) ==
    [pc |-> "page", api_key |-> api_key,
     language |-> language, todo |-> todo, page |-> 1, requested |-> 0,
     results |-> <<>>, final_movies |-> <<>>, stop |-> ""]

\* StartThread with `for lang in languages` left after its first round.
StartThreadFirstOnly(api_key, languages) ==
    IF languages = <<>> THEN [IdleThread EXCEPT !.pc = "done"]
    ELSE StartRun(api_key, Head(languages), <<>>)

\* A thread whose target has nothing to run ends at once.
StartThread(api_key, languages) ==
    IF languages = <<>> THEN [IdleThread EXCEPT !.pc = "done"]
    ELSE StartRun(api_key, Head(languages), Tail(languages))

RunKey(t) == CacheKey(thr[t].api_key, thr[t].language)

\* A run is in flight from its start until its result is in the cache.
InFlight(t) == thr[t].pc \in {"page", "prov", "ext", "store", "locked"}

\* The thread slots a new thread can take. The program starts threads
\* without limit; the model has MaxThreads slots, and a request that would
\* start a thread is taken up only while a slot is free for it.
FreeSlots == {t \in Threads : thr[t].pc \in {"idle", "done"}}
FirstFreeSlot == CHOOSE t \in FreeSlots : \A u \in FreeSlots : t <= u

NothingReceived ==
    [movies |-> <<>>, skipped |-> 0, pages |-> 0,
     failed |-> FALSE, nondict |-> FALSE,
     after_same |-> FALSE, after_later |-> FALSE]

\* The eligible records of a page, as the specification defines eligibility.
Eligible(rec) ==
    /\ rec.dict
    /\ rec.id # 0 /\ rec.title # ""
    /\ rec.prov = "flatrate"
    /\ rec.ext = "ok"
    /\ rec.imdb_id # "" /\ Len(rec.imdb_id) >= 2
    /\ SubSeq(rec.imdb_id, 1, 2) = "tt"

EligibleOf(results) ==
    LET eligible == SelectSeq(results, Eligible)
    IN [i \in 1..Len(eligible) |-> CachedMovie(eligible[i])]

\* app.py:56-76  one of the two enrichment lookups of the record raises
EnrichmentFails(rec) ==
    /\ rec.dict
    /\ rec.id # 0 /\ rec.title # ""
    /\ \/ rec.prov = "error"
       \/ rec.prov = "flatrate" /\ rec.ext = "error"

IsNoDict(rec) == ~rec.dict

\* An eligible record of the page comes after a record of the page whose
\* lookup fails.
EligibleAfterFailure(results) ==
    \E i \in 1..Len(results) :
        /\ Eligible(results[i])
        /\ \E j \in 1..(i - 1) : EnrichmentFails(results[j])

\* app.py:28  for page in range(1, 1000): does the loop go on after `page`?
LoopContinues(page) == page + 1 < PageStop

\* AfterPageError with the collected movies thrown away.
AfterPageErrorDiscard(final_movies) == <<>>

\* app.py:39-43, 78-80  what a failed page request leaves of final_movies
AfterPageError(final_movies) == final_movies

\* app.py:39-48  the request of one discovery page ends the loop
PageEndsLoop(t, why) ==
    /\ thr' = [thr EXCEPT ![t].pc = "store", ![t].stop = why,
                          ![t].requested = @ + 1,
                          ![t].final_movies =
                              IF why = "empty" THEN @ ELSE AfterPageError(@)]
    /\ UNCHANGED <<movie_cache, cache_lock, hnd, received, delivered>>

\* app.py:50-54, 28, 78-80  the loop over the page goes on with the records
\* rest: up to the next record that needs a request, to an element that is
\* no JSON object (movie.get raises, outside the inner try: the outer except
\* breaks), or to the end of the page and with it to the next page or the
\* end of range(1, 1000).
AfterRecord(run, final_movies, rest) ==
    LET pending == SkipNoRequest(rest)
    IN IF pending = <<>>
       THEN IF LoopContinues(run.page)
            THEN [run EXCEPT !.pc = "page", !.page = @ + 1, !.results = <<>>,
                             !.final_movies = final_movies]
            ELSE [run EXCEPT !.pc = "store", !.stop = "ceiling",
                             !.results = <<>>, !.final_movies = final_movies]
       ELSE IF ~pending[1].dict
            THEN [run EXCEPT !.pc = "store", !.stop = "raised",
                             !.results = <<>>, !.final_movies = final_movies]
            ELSE [run EXCEPT !.pc = "prov", !.results = pending,
                             !.final_movies = final_movies]

\* app.py:40-54  the discovery request is answered with a page of records
PageOfRecords(t, results) ==
    LET eligible == EligibleOf(results)
    IN /\ thr' = [thr EXCEPT ![t] =
                    AfterRecord([thr[t] EXCEPT !.requested = @ + 1],
                                thr[t].final_movies, results)]
       /\ received' = [received EXCEPT
                         ![t].movies = @ \o eligible,
                         ![t].skipped = @ + Len(results) - Len(eligible),
                         ![t].pages = @ + 1,
                         ![t].failed =
                             @ \/ SelectSeq(results, EnrichmentFails) # <<>>,
                         ![t].nondict =
                             @ \/ SelectSeq(results, IsNoDict) # <<>>,
                         ![t].after_same = @ \/ EligibleAfterFailure(results),
                         ![t].after_later =
                             @ \/ (received[t].failed /\ eligible # <<>>)]
       /\ delivered' = delivered \cup {eligible[i] : i \in 1..Len(eligible)}
       /\ UNCHANGED <<movie_cache, cache_lock, hnd>>

\* app.py:28-54  the discovery request of one page and its answer. Pages is
\* the set of record lists the upstream may answer with, on the first maxp
\* pages only.
FetchPage(t, Pages, maxp) ==
    /\ thr[t].pc = "page"
    /\ \/ PageEndsLoop(t, "error")       \* requests.get or .json() raises
       \/ PageEndsLoop(t, "status")      \* status_code != 200
       \/ PageEndsLoop(t, "empty")       \* not results
       \/ /\ thr[t].page <= maxp
          /\ \E results \in Pages : PageOfRecords(t, results)

\* app.py:57-64, 74-76  the providers request for the record at the head of
\* results is answered: it raises, it reports no flatrate offering in IN, or
\* it reports one and the external_ids request follows.
Providers(t) ==
    LET movie == Head(thr[t].results) IN
    /\ thr[t].pc = "prov"
    /\ thr' = [thr EXCEPT ![t] =
          IF movie.prov = "error"
          THEN AfterRecord(thr[t], thr[t].final_movies,
                           AfterLookupError(thr[t].results))
          ELSE IF movie.prov # "flatrate"
          THEN AfterRecord(thr[t], thr[t].final_movies, Tail(thr[t].results))
          ELSE [thr[t] EXCEPT !.pc = "ext"]]
    /\ UNCHANGED <<movie_cache, cache_lock, hnd, received, delivered>>

\* ExternalIds with the list collected so far put into the cache after
\* every record.
ExternalIdsPublishing(t) ==
    LET movie == Head(thr[t].results) IN
    /\ thr[t].pc = "ext"
    /\ thr' = [thr EXCEPT ![t] =
          IF movie.ext = "error"
          THEN AfterRecord(thr[t], thr[t].final_movies,
                           AfterLookupError(thr[t].results))
          ELSE AfterRecord(thr[t], ProcessMovie(thr[t].final_movies, movie),
                           Tail(thr[t].results))]
    /\ movie_cache' = [k \in DOMAIN movie_cache \cup {RunKey(t)} |->
                         IF k = RunKey(t) THEN thr'[t].final_movies
                         ELSE movie_cache[k]]
    /\ UNCHANGED <<cache_lock, hnd, received, delivered>>

\* app.py:66-76  the external_ids request for the record at the head of
\* results is answered: it raises, or the record is appended if its imdb_id
\* passes the test.
ExternalIds(t) ==
    LET movie == Head(thr[t].results) IN
    /\ thr[t].pc = "ext"
    /\ thr' = [thr EXCEPT ![t] =
          IF movie.ext = "error"
          THEN AfterRecord(thr[t], thr[t].final_movies,
                           AfterLookupError(thr[t].results))
          ELSE AfterRecord(thr[t], ProcessMovie(thr[t].final_movies, movie),
                           Tail(thr[t].results))]
    /\ UNCHANGED <<movie_cache, cache_lock, hnd, received, delivered>>

\* app.py:91  with cache_lock:
AcquireStore(t) ==
    /\ thr[t].pc = "store"
    /\ cache_lock = Free
    /\ cache_lock' = HeldByThread(t)
    /\ thr' = [thr EXCEPT ![t].pc = "locked"]
    /\ UNCHANGED <<movie_cache, hnd, received, delivered>>

\* Put with the dict rebuilt from the one assigned entry.
PutDroppingOthers(cache, cache_key, value) ==
    [k \in {cache_key} |-> value]

\* movie_cache[cache_key] = value
Put(cache, cache_key, value) ==
    [k \in DOMAIN cache \cup {cache_key} |->
        IF k = cache_key THEN value ELSE cache[k]]

\* StoreValue with the slot left alone when the first page request failed.
StoreValueUnlessTotalFailure(cache, cache_key, final_movies, stop) ==
    IF final_movies = <<>> /\ stop \in {"error", "status"} THEN cache
    ELSE Put(cache, cache_key, Dedup(final_movies))

\* app.py:82-92  what a finished run assigns to its slot, whatever made
\* the page loop stop
StoreValue(cache, cache_key, final_movies, stop) ==
    Put(cache, cache_key, Dedup(final_movies))

\* Store with the lock taken by acquire() and never released.
StoreKeepingLock(t) ==
    /\ thr[t].pc = "locked"
    /\ cache_lock = HeldByThread(t)
    /\ movie_cache' = StoreValue(movie_cache, RunKey(t), thr[t].final_movies,
                                 thr[t].stop)
    /\ cache_lock' = cache_lock
    /\ thr' = [thr EXCEPT ![t].pc = IF thr[t].todo = <<>> THEN "done"
                                    ELSE "returned"]
    /\ UNCHANGED <<hnd, received, delivered>>

\* app.py:92-95  the assignment, the release of the lock and the return
Store(t) ==
    /\ thr[t].pc = "locked"
    /\ cache_lock = HeldByThread(t)
    /\ movie_cache' = StoreValue(movie_cache, RunKey(t), thr[t].final_movies,
                                 thr[t].stop)
    /\ cache_lock' = Free
    /\ thr' = [thr EXCEPT ![t].pc = IF thr[t].todo = <<>> THEN "done"
                                    ELSE "returned"]
    /\ UNCHANGED <<hnd, received, delivered>>

\* app.py:532-535  do_refresh goes on with its next language
NextLanguage(t) ==
    /\ thr[t].pc = "returned"
    /\ thr' = [thr EXCEPT ![t] = StartRun(thr[t].api_key, Head(thr[t].todo),
                                          Tail(thr[t].todo))]
    /\ received' = [received EXCEPT ![t] = NothingReceived]
    /\ UNCHANGED <<movie_cache, cache_lock, hnd, delivered>>

\* ------------------------------------------------------------ handlers
NoResp == [status |-> 0, metas |-> <<>>, text |-> ""]
Resp(status, metas, text) == [status |-> status, metas |-> metas, text |-> text]

\* pc is the position of the handler:
\*   "locked"   catalog inside `with cache_lock`, before the membership test
\*   "started"  after Thread(...).start() (app.py:502 with the lock held,
\*              app.py:539), before the return statement
\*   "read"     catalog after the with-block, cached_movies read
\* languages is the local of refresh (app.py:529), cached_movies the local
\* of catalog (app.py:507).
IdleHandler ==
    [pc |-> "idle", route |-> "", api_key |-> "", language |-> "",
     languages |-> <<>>, skip |-> 0, cached_movies |-> <<>>,
     ret |-> 0, resp |-> NoResp]

HandlerKey(h) == CacheKey(hnd[h].api_key, hnd[h].language)

\* app.py:483-496  catalog up to the acquisition of the lock. ret is the
\* line of the return statement that produced resp.
CatalogBegin(config_string, language, skip) ==
    LET config == decode_user_config(config_string)
        h == "catalog"
    IN /\ hnd[h].pc = "idle"
       /\ IF ConfigRejected(config)
          THEN /\ hnd' = [hnd EXCEPT ![h] =
                     [IdleHandler EXCEPT !.route = "catalog", !.ret = 488,
                                         !.resp = Resp(400, <<>>, "")]]
               /\ UNCHANGED cache_lock
          ELSE /\ cache_lock = Free
               /\ FreeSlots # {}
               /\ cache_lock' = HeldByHandler
               /\ hnd' = [hnd EXCEPT ![h] =
                     [IdleHandler EXCEPT !.pc = "locked", !.route = "catalog",
                                         !.api_key = config.api_key,
                                         !.language = language,
                                         !.skip = skip]]
       /\ UNCHANGED <<movie_cache, thr, received, delivered>>

\* app.py:497  if cache_key not in movie_cache
IsMiss(cache, cache_key) == cache_key \notin DOMAIN cache

\* MissCache with an empty placeholder stored under the missing key.
MissCachePlaceholder(cache, cache_key) == Put(cache, cache_key, <<>>)

\* app.py:497-505  what the miss branch does to the cache
MissCache(cache, cache_key) == cache

\* app.py:497-502  miss: start the background thread; the lock stays held
CatalogMiss ==
    LET h == "catalog" IN
    /\ hnd[h].pc = "locked"
    /\ IsMiss(movie_cache, HandlerKey(h))
    /\ thr' = [thr EXCEPT ![FirstFreeSlot] =
                  StartThread(hnd[h].api_key, <<hnd[h].language>>)]
    /\ received' = [received EXCEPT ![FirstFreeSlot] = NothingReceived]
    /\ movie_cache' = MissCache(movie_cache, HandlerKey(h))
    /\ hnd' = [hnd EXCEPT ![h].pc = "started"]
    /\ UNCHANGED <<cache_lock, delivered>>

\* app.py:505  miss: answer empty, leaving the with-block
CatalogMissReturn ==
    LET h == "catalog" IN
    /\ hnd[h].pc = "started"
    /\ cache_lock' = Free
    /\ hnd' = [hnd EXCEPT ![h].pc = "idle", ![h].ret = 505,
                          ![h].resp = Resp(200, <<>>, "")]
    /\ UNCHANGED <<movie_cache, thr, received, delivered>>

\* app.py:507  hit: read the list under the lock, leaving the with-block
CatalogHit ==
    LET h == "catalog" IN
    /\ hnd[h].pc = "locked"
    /\ ~IsMiss(movie_cache, HandlerKey(h))
    /\ hnd' = [hnd EXCEPT ![h].pc = "read",
                          ![h].cached_movies = movie_cache[HandlerKey(h)]]
    /\ cache_lock' = Free
    /\ UNCHANGED <<movie_cache, thr, received, delivered>>

\* app.py:509-518  hit: paginate the list that was read, convert, answer
CatalogHitReturn ==
    LET h == "catalog" IN
    /\ hnd[h].pc = "read"
    /\ LET paginated_movies == Paginate(hnd[h].cached_movies, hnd[h].skip)
       IN hnd' = [hnd EXCEPT ![h].pc = "idle", ![h].ret = 518,
                     ![h].cached_movies = <<>>,
                     ![h].resp = Resp(200, ConvertAll(paginated_movies), "")]
    /\ UNCHANGED <<movie_cache, cache_lock, thr, received, delivered>>

\* app.py:520-539  refresh up to Thread(target=do_refresh).start(): one
\* thread running do_refresh over the languages
Refresh(config_string) ==
    LET config == decode_user_config(config_string)
        h == "refresh"
    IN /\ hnd[h].pc = "idle"
       /\ IF ConfigRejected(config)
          THEN /\ hnd' = [hnd EXCEPT ![h] =
                     [IdleHandler EXCEPT !.route = "refresh", !.ret = 526,
                          !.resp = Resp(400, <<>>, "Invalid configuration")]]
               /\ UNCHANGED <<thr, received>>
          ELSE /\ Cardinality(FreeSlots) >
                    (IF hnd["catalog"].pc = "locked" THEN 1 ELSE 0)
               /\ thr' = [thr EXCEPT ![FirstFreeSlot] =
                     StartThread(config.api_key, config.languages)]
               /\ received' = [received EXCEPT ![FirstFreeSlot] = NothingReceived]
               /\ hnd' = [hnd EXCEPT ![h] =
                     [IdleHandler EXCEPT !.pc = "started", !.route = "refresh",
                          !.api_key = config.api_key,
                          !.languages = config.languages]]
       /\ UNCHANGED <<movie_cache, cache_lock, delivered>>

\* app.py:541  refresh answers
RefreshReturn ==
    LET h == "refresh" IN
    /\ hnd[h].pc = "started"
    /\ hnd' = [hnd EXCEPT ![h].pc = "idle", ![h].ret = 541,
                  ![h].resp = Resp(200, <<>>, "refresh started in background")]
    /\ UNCHANGED <<movie_cache, cache_lock, thr, received, delivered>>

\* app.py:496-518  a step of catalog after it has taken the lock
CatalogStep ==
    CatalogMiss \/ CatalogMissReturn \/ CatalogHit \/ CatalogHitReturn

\* ------------------------------------------------------- specification
EmptyCache == [k \in {} |-> <<>>]

Init ==
    /\ movie_cache = EmptyCache
    /\ cache_lock = Free
    /\ thr = [t \in Threads |-> IdleThread]
    /\ hnd = [h \in Handlers |-> IdleHandler]
    /\ received = [t \in Threads |-> NothingReceived]
    /\ delivered = {}

\* The inputs of Spec: one key, and an upstream whose pages of records hold
\* two records with one identifier.
SpecConfigs == {CfgA}
SpecLanguages == {"ml"}
SpecPages == {<<Good1, Dup1>>}
SpecSkips == {0}

Next ==
    \/ \E c \in SpecConfigs, l \in SpecLanguages, s \in SpecSkips :
          CatalogBegin(c, l, s)
    \/ CatalogMiss
    \/ CatalogMissReturn
    \/ CatalogHit
    \/ CatalogHitReturn
    \/ \E c \in SpecConfigs : Refresh(c)
    \/ RefreshReturn
    \/ \E t \in Threads : FetchPage(t, SpecPages, MaxPages)
    \/ \E t \in Threads : Providers(t)
    \/ \E t \in Threads : ExternalIds(t)
    \/ \E t \in Threads : AcquireStore(t)
    \/ \E t \in Threads : Store(t)

Spec == Init /\ [][Next]_vars

\* Catalog reads only: every populate run is started by a catalog miss.
NextReads ==
    \/ \E c \in SpecConfigs, l \in SpecLanguages, s \in SpecSkips :
          CatalogBegin(c, l, s)
    \/ CatalogMiss
    \/ CatalogMissReturn
    \/ CatalogHit
    \/ CatalogHitReturn
    \/ \E t \in Threads : FetchPage(t, SpecPages, MaxPages)
    \/ \E t \in Threads : Providers(t)
    \/ \E t \in Threads : ExternalIds(t)
    \/ \E t \in Threads : AcquireStore(t)
    \/ \E t \in Threads : Store(t)

SpecReads == Init /\ [][NextReads]_vars

\* No populate run is under way.
Quiet == \A t \in Threads : thr[t].pc \in {"idle", "done"}

\* The non-empty sequences over S of length at most n.
SeqsUpTo(S, n) == UNION {[1..k -> S] : k \in 1..n}

\* The first run after the start of the program, started by refresh,
\* against an upstream that may put any kind of record on a page.
FetchRecords ==
    {Good1, Good2, Dup1, NotDict, NoId, NoTitle, ProvError, NoFlatrate,
     ExtError, NoImdb, NameImdb, ShortImdb}
FetchPages == SeqsUpTo(FetchRecords, MaxPerPage)

NextFetch ==
    \/ Quiet /\ movie_cache = EmptyCache /\ Refresh(CfgA)
    \/ RefreshReturn
    \/ \E t \in Threads : FetchPage(t, FetchPages, MaxPages)
    \/ \E t \in Threads : Providers(t)
    \/ \E t \in Threads : ExternalIds(t)
    \/ \E t \in Threads : AcquireStore(t)
    \/ \E t \in Threads : Store(t)

SpecFetch == Init /\ [][NextFetch]_vars

\* Long lists: the run started by the first catalog read meets an upstream
\* whose pages hold one record without a title followed by n well-formed
\* records with distinct identifiers; the catalog reads that follow it use
\* offsets around the page size.
NumberedRecord(i) ==
    Raw(i, "T" \o ToString(i), "", "flatrate", "ok", "tt" \o ToString(i))
BigPage(n) == <<NoTitle>> \o [i \in 1..n |-> NumberedRecord(i)]
BigLengths == {1, PageSize - 1, PageSize, PageSize + 1, PageSize + MaxOver}
BigPages == {BigPage(n) : n \in BigLengths}
BigSkips ==
    {0, 1, MaxOver, PageSize - 1, PageSize, PageSize + 1, PageSize + MaxOver,
     PageSize + 2 * MaxOver + 10}

NextPage ==
    \/ Quiet /\ \E s \in BigSkips : CatalogBegin(CfgA, "ml", s)
    \/ CatalogMiss
    \/ CatalogMissReturn
    \/ CatalogHit
    \/ CatalogHitReturn
    \/ \E t \in Threads : FetchPage(t, BigPages, MaxPages)
    \/ \E t \in Threads : Providers(t)
    \/ \E t \in Threads : ExternalIds(t)
    \/ \E t \in Threads : AcquireStore(t)
    \/ \E t \in Threads : Store(t)

SpecPage == Init /\ [][NextPage]_vars

\* The first run after the start of the program, over several pages: short
\* pages that mix eligible records with records whose lookups fail, and
\* blocks of BlockSize eligible records with distinct identifiers, each block
\* with identifiers of its own; one more block repeats, in its last record,
\* the first record of the first block.
RunRecords == {Good1, Good2, ProvError, ExtError}
BlockSize == 20
Block(k) ==
    [i \in 1..BlockSize |-> NumberedRecord((k - 1) * BlockSize + i)]
BlockWithRepeat(k) ==
    [Block(k) EXCEPT ![BlockSize] = NumberedRecord(1)]
RunPages ==
    SeqsUpTo(RunRecords, MaxPerPage)
        \cup {Block(k) : k \in 1..(MaxPages + 1)}
        \cup {BlockWithRepeat(2)}

NextRuns ==
    \/ Quiet /\ movie_cache = EmptyCache /\ Refresh(CfgA)
    \/ RefreshReturn
    \/ \E t \in Threads : FetchPage(t, RunPages, MaxPages + 1)
    \/ \E t \in Threads : Providers(t)
    \/ \E t \in Threads : ExternalIds(t)
    \/ \E t \in Threads : AcquireStore(t)
    \/ \E t \in Threads : Store(t)

SpecRuns == Init /\ [][NextRuns]_vars

\* Refresh requests only, for one category and for two, each issued when
\* the thread of the one before has ended, so that no thread waits for the
\* lock while another takes it; every thread that can take a step
\* eventually takes one.
RefreshConfigs == {CfgA, CfgAMlTa}
RefreshPages == {<<Good1, Dup1>>, <<Good2>>}

RefreshStep(t) ==
    \/ FetchPage(t, RefreshPages, MaxPages)
    \/ Providers(t)
    \/ ExternalIds(t)
    \/ AcquireStore(t)
    \/ Store(t)
    \/ NextLanguage(t)

NextRefresh ==
    \/ Quiet /\ \E c \in RefreshConfigs : Refresh(c)
    \/ RefreshReturn
    \/ \E t \in Threads : FetchPage(t, RefreshPages, MaxPages)
    \/ \E t \in Threads : Providers(t)
    \/ \E t \in Threads : ExternalIds(t)
    \/ \E t \in Threads : AcquireStore(t)
    \/ \E t \in Threads : Store(t)
    \/ \E t \in Threads : NextLanguage(t)

SpecRefresh ==
    /\ Init /\ [][NextRefresh]_vars
    /\ \A t \in Threads : WF_vars(RefreshStep(t))
    /\ WF_vars(RefreshReturn)

\* Requests with every kind of configuration string.
AllConfigs == {CfgBad, CfgEmpty, CfgNoKey, CfgEmptyKey, CfgA}

NextConfig ==
    \/ \E c \in AllConfigs : CatalogBegin(c, "ml", 0)
    \/ CatalogMiss
    \/ CatalogMissReturn
    \/ CatalogHit
    \/ CatalogHitReturn
    \/ Quiet /\ \E c \in AllConfigs : Refresh(c)
    \/ RefreshReturn
    \/ \E t \in Threads : FetchPage(t, {<<Good1>>}, MaxPages)
    \/ \E t \in Threads : Providers(t)
    \/ \E t \in Threads : ExternalIds(t)
    \/ \E t \in Threads : AcquireStore(t)
    \/ \E t \in Threads : Store(t)

SpecConfig == Init /\ [][NextConfig]_vars

\* Api keys and categories that contain the separator of the cache key:
\* catalog reads for the pairs (a, ml), (a, b_ml), (a_b, ml) and (a_b, b_ml).
KeyConfigs == {CfgA, CfgAUnderB}
KeyLanguages == {"ml", "b_ml"}

NextKeys ==
    \/ \E c \in KeyConfigs, l \in KeyLanguages : CatalogBegin(c, l, 0)
    \/ CatalogMiss
    \/ CatalogMissReturn
    \/ CatalogHit
    \/ CatalogHitReturn
    \/ \E t \in Threads : FetchPage(t, {<<Good1>>}, MaxPages)
    \/ \E t \in Threads : Providers(t)
    \/ \E t \in Threads : ExternalIds(t)
    \/ \E t \in Threads : AcquireStore(t)
    \/ \E t \in Threads : Store(t)

SpecKeys == Init /\ [][NextKeys]_vars

\* Two categories of one credential: catalog reads of either category,
\* rejected reads, refreshes of one category, of both and rejected ones, a
\* new request when no run is under way.
FrameConfigs == {CfgBad, CfgA, CfgAMlTa}
FrameLanguages == {"ml", "ta"}

NextFrame ==
    \/ Quiet /\ \E c \in {CfgBad, CfgA}, l \in FrameLanguages :
                    CatalogBegin(c, l, 0)
    \/ CatalogMiss
    \/ CatalogMissReturn
    \/ CatalogHit
    \/ CatalogHitReturn
    \/ Quiet /\ \E c \in FrameConfigs : Refresh(c)
    \/ RefreshReturn
    \/ \E t \in Threads : FetchPage(t, {<<Good1>>}, MaxPages)
    \/ \E t \in Threads : Providers(t)
    \/ \E t \in Threads : ExternalIds(t)
    \/ \E t \in Threads : AcquireStore(t)
    \/ \E t \in Threads : Store(t)
    \/ \E t \in Threads : NextLanguage(t)

SpecFrame == Init /\ [][NextFrame]_vars

\* Catalog reads and the runs they start. A thread or a handler that holds
\* the lock eventually takes its next step; nothing makes a run go on with
\* its page requests or take the lock.
LockLanguages == {"ml"}

LockStep(t) == Store(t)

NextLock ==
    \/ \E l \in LockLanguages : CatalogBegin(CfgA, l, 0)
    \/ CatalogMiss
    \/ CatalogMissReturn
    \/ CatalogHit
    \/ CatalogHitReturn
    \/ \E t \in Threads : FetchPage(t, {<<Good1>>}, MaxPages)
    \/ \E t \in Threads : Providers(t)
    \/ \E t \in Threads : ExternalIds(t)
    \/ \E t \in Threads : AcquireStore(t)
    \/ \E t \in Threads : Store(t)

SpecLock ==
    /\ Init /\ [][NextLock]_vars
    /\ \A t \in Threads : WF_vars(LockStep(t))
    /\ WF_vars(CatalogStep)

\* Overlapping runs for one key whose order of start is known: a request
\* that starts a run (a refresh, a catalog read of an absent key) is taken up
\* only while no thread has ended, so that every thread slot runs at most one
\* run and the runs start in the order of their slots.
NoneEnded == \A t \in Threads : thr[t].pc # "done"

NextOverlap ==
    \/ /\ NoneEnded \/ CacheKey("a", "ml") \in DOMAIN movie_cache
       /\ CatalogBegin(CfgA, "ml", 0)
    \/ CatalogMiss
    \/ CatalogMissReturn
    \/ CatalogHit
    \/ CatalogHitReturn
    \/ NoneEnded /\ Refresh(CfgA)
    \/ RefreshReturn
    \/ \E t \in Threads : FetchPage(t, {<<Good1>>, <<Good2>>}, MaxPages)
    \/ \E t \in Threads : Providers(t)
    \/ \E t \in Threads : ExternalIds(t)
    \/ \E t \in Threads : AcquireStore(t)
    \/ \E t \in Threads : Store(t)

SpecOverlap == Init /\ [][NextOverlap]_vars

\* An upstream that never runs out of pages while the cache is empty: the
\* run started by the first catalog miss is offered a page on every request,
\* with a record that is not on offer, with a record whose providers lookup
\* raises, with a record whose external_ids lookup raises or with an element
\* that is no JSON object, and with an eligible record on the first MaxPages
\* pages only; any request may instead fail, answer a
\* non-200 status or answer an empty page. Once a list is stored, refreshes
\* start runs that overlap, two at a time, and compete for the lock; their
\* upstream has MaxPages pages. A refresh is taken up only while no run waits
\* for the lock or holds it, so that a waiting run is overtaken finitely
\* often: the lock is not assumed to be fair. Every thread that can take a
\* step eventually takes one, and so do the request handlers.
CeilingPages == {<<NoFlatrate>>, <<ProvError>>, <<ExtError>>, <<NotDict>>}

\* No run waits for the lock or holds it, and at most one is under way.
RoomForRun ==
    /\ \A t \in Threads : thr[t].pc \notin {"store", "locked"}
    /\ Cardinality({t \in Threads : InFlight(t)}) <= 1

NextCeiling ==
    \/ Quiet /\ CatalogBegin(CfgA, "ml", 0)
    \/ CatalogMiss
    \/ CatalogMissReturn
    \/ CatalogHit
    \/ CatalogHitReturn
    \/ movie_cache # EmptyCache /\ RoomForRun /\ Refresh(CfgA)
    \/ RefreshReturn
    \/ \E t \in Threads : FetchPage(t, {<<Good1>>}, MaxPages)
    \/ \E t \in Threads :
          movie_cache = EmptyCache /\ FetchPage(t, CeilingPages, PageStop)
    \/ \E t \in Threads : Providers(t)
    \/ \E t \in Threads : ExternalIds(t)
    \/ \E t \in Threads : AcquireStore(t)
    \/ \E t \in Threads : Store(t)

RunStep(t) ==
    \/ FetchPage(t, {<<Good1>>}, MaxPages)
    \/ movie_cache = EmptyCache /\ FetchPage(t, CeilingPages, PageStop)
    \/ Providers(t)
    \/ ExternalIds(t)
    \/ AcquireStore(t)
    \/ Store(t)

SpecCeiling ==
    /\ Init /\ [][NextCeiling]_vars
    /\ \A t \in Threads : WF_vars(RunStep(t))
    /\ WF_vars(CatalogStep)
    /\ WF_vars(RefreshReturn)

\* The step in which the catalog read finds its key cached and reads the
\* list, and the step in which it answers from the list it has read.
HitRead == hnd["catalog"].pc = "locked" /\ hnd'["catalog"].pc = "read"
HitStep == hnd["catalog"].pc = "read" /\ hnd'["catalog"].pc = "idle"

\* The first occurrence of every identifier of a list, in the list's order.
FirstSeenIndices(movies) ==
    {i \in 1..Len(movies) :
        \A j \in 1..(i - 1) : movies[j].imdb_id # movies[i].imdb_id}

\* The elements of movies at the indices lo..hi that are in keep, in order.
RECURSIVE PickIndices(_, _, _, _)
PickIndices(movies, keep, lo, hi) ==
    IF lo > hi THEN <<>>
    ELSE IF lo = hi THEN (IF lo \in keep THEN <<movies[lo]>> ELSE <<>>)
    ELSE PickIndices(movies, keep, lo, (lo + hi) \div 2)
            \o PickIndices(movies, keep, (lo + hi) \div 2 + 1, hi)

FirstSeen(movies) ==
    PickIndices(movies, FirstSeenIndices(movies), 1, Len(movies))

\* ================================================================ claims

\* C11: a failure of an enrichment lookup of one record skips only that
\* record: a finished run that met such failures (and no element that is no
\* JSON object) was not stopped by them, and its slot holds every eligible
\* record it was delivered, those after the failure on the same page and
\* those on later pages included, less the repeated identifiers. (One run at
\* a time: checked under SpecRuns.)
C11_LookupFailureSkipsOneRecord ==
    \A t \in Threads :
        (thr[t].pc = "done" /\ received[t].failed /\ ~received[t].nondict)
          => /\ thr[t].stop # "raised"
             /\ thr[t].requested >= received[t].pages
             /\ RunKey(t) \in DOMAIN movie_cache
             /\ movie_cache[RunKey(t)] = FirstSeen(received[t].movies)

\* A finished run met a failing lookup on its first page, an eligible record
\* after it on that page and another eligible record on the next page, and
\* both are in the list it wrote.
C11_Witness ==
    \E t \in Threads :
        /\ thr[t].pc = "done"
        /\ received[t].failed
        /\ received[t].pages = 2
        /\ received[t].after_same
        /\ received[t].after_later
        /\ RunKey(t) \in DOMAIN movie_cache
        /\ Len(movie_cache[RunKey(t)]) = 2

\* C1: while a key is absent from the cache, the catalog reads issued for it
\* have started at most one populate run: no two runs started by catalog
\* reads are in flight for the same absent key. (Checked under SpecReads,
\* where catalog misses are the only source of runs.)
C1_OneRunPerAbsentKey ==
    \A t1 \in Threads, t2 \in Threads :
        (t1 # t2 /\ InFlight(t1) /\ InFlight(t2) /\ RunKey(t1) = RunKey(t2))
            => RunKey(t1) \in DOMAIN movie_cache

\* C2: for every cache key at most one populate run is under way at any
\* time, whether the runs were started by catalog misses or by refresh.
C2_AtMostOneInFlight ==
    \A k \in {RunKey(t) : t \in {u \in Threads : InFlight(u)}} :
        Cardinality({t \in Threads : InFlight(t) /\ RunKey(t) = k}) <= 1

\* C5: in every reachable state every cached list is free of repeated
\* external (IMDb) identifiers.
C5_NoDuplicateIds ==
    \A k \in DOMAIN movie_cache :
        \A i \in 1..Len(movie_cache[k]), j \in 1..Len(movie_cache[k]) :
            i # j => movie_cache[k][i].imdb_id # movie_cache[k][j].imdb_id

\* A finished run had collected the same identifier twice, and its slot
\* holds the list it wrote.
C5_Witness ==
    \E t \in Threads :
        /\ thr[t].pc = "done"
        /\ \E i \in 1..Len(thr[t].final_movies), j \in 1..Len(thr[t].final_movies) :
              i # j /\ thr[t].final_movies[i].imdb_id = thr[t].final_movies[j].imdb_id
        /\ RunKey(t) \in DOMAIN movie_cache
        /\ Len(movie_cache[RunKey(t)]) = 1

\* C7: a catalog read that finds its key absent starts its run and answers
\* with an empty result and status 200 without waiting for any run: from the
\* start of the thread on its answer can always be the next step, however far
\* the runs have got; the key is absent all the while and when it answers,
\* and neither of its two steps changes the cache or moves a run.
C7_MissAnswersAtOnce ==
    /\ [](hnd["catalog"].pc = "started"
            => /\ HandlerKey("catalog") \notin DOMAIN movie_cache
               /\ ENABLED CatalogMissReturn)
    /\ [][(hnd["catalog"].pc = "locked" /\ hnd'["catalog"].pc = "started")
            => /\ movie_cache' = movie_cache
               /\ \A t \in Threads : InFlight(t) => thr'[t] = thr[t]]_vars
    /\ [][(hnd["catalog"].pc = "started" /\ hnd'["catalog"].pc = "idle")
            => /\ hnd'["catalog"].ret = 505
               /\ hnd'["catalog"].resp = Resp(200, <<>>, "")
               /\ HandlerKey("catalog") \notin DOMAIN movie_cache'
               /\ movie_cache' = movie_cache
               /\ thr' = thr]_vars

\* A miss has been answered: the key is absent, the answer is empty, and
\* the run it started has not requested a page yet.
C7_Witness ==
    /\ hnd["catalog"].pc = "idle"
    /\ hnd["catalog"].ret = 505
    /\ hnd["catalog"].resp = Resp(200, <<>>, "")
    /\ HandlerKey("catalog") \notin DOMAIN movie_cache
    /\ \E t \in Threads :
          /\ thr[t].pc = "page" /\ thr[t].requested = 0
          /\ RunKey(t) = HandlerKey("catalog")

\* C9: a run whose first page request fails (transport error or non-200
\* status) and whose key already holds a list leaves that list as it was.
C9_TotalFailureKeepsList ==
    [][\A t \in Threads :
          (/\ thr[t].pc = "locked" /\ thr'[t].pc # "locked"
           /\ thr[t].requested = 1
           /\ thr[t].stop \in {"error", "status"}
           /\ RunKey(t) \in DOMAIN movie_cache)
             => movie_cache'[RunKey(t)] = movie_cache[RunKey(t)]]_vars

\* C6: every item of every cached list is eligible: its id and title are
\* non-empty, its external identifier is non-empty and starts with "tt", and
\* the upstream delivered it as a record whose availability lookup reported
\* a flatrate offering in IN and whose identifier lookup succeeded.
C6_OnlyEligibleCached ==
    \A k \in DOMAIN movie_cache :
        \A i \in 1..Len(movie_cache[k]) :
            LET m == movie_cache[k][i]
            IN /\ m.id # 0
               /\ m.title # ""
               /\ m.imdb_id # ""
               /\ Len(m.imdb_id) >= 2 /\ SubSeq(m.imdb_id, 1, 2) = "tt"
               /\ m \in delivered

\* A finished run was offered records that are not eligible besides eligible
\* ones, and the list it stored holds an item.
C6_Witness ==
    \E t \in Threads :
        /\ thr[t].pc = "done"
        /\ received[t].skipped >= 1
        /\ received[t].movies # <<>>
        /\ RunKey(t) \in DOMAIN movie_cache
        /\ Len(movie_cache[RunKey(t)]) >= 1

\* C10: a run whose page request k fails (transport error or non-200 status)
\* after k-1 pages of records has requested exactly k pages, ends normally,
\* and its slot holds the eligible records of pages 1..k-1 with every
\* repeated identifier dropped after its first occurrence. (One run at a
\* time: checked under SpecFetch.)
C10_PageFailureKeepsCollected ==
    \A t \in Threads :
        (thr[t].stop \in {"error", "status"} /\ thr[t].pc \in {"idle", "done"})
          => /\ thr[t].pc = "done"
             /\ thr[t].requested = received[t].pages + 1
             /\ RunKey(t) \in DOMAIN movie_cache
             /\ movie_cache[RunKey(t)] = FirstSeen(received[t].movies)

\* Page 1 delivered records, page 2 failed, and the stored list is shorter
\* than what was collected because of a repeated identifier.
C10_Witness ==
    \E t \in Threads :
        /\ thr[t].pc = "done"
        /\ thr[t].stop = "error"
        /\ thr[t].requested = 2
        /\ received[t].pages = 1
        /\ Len(received[t].movies) = 2
        /\ RunKey(t) \in DOMAIN movie_cache
        /\ Len(movie_cache[RunKey(t)]) = 1

\* C3: a catalog read that finds its key cached reads the list of the slot,
\* and with 0 <= skip < length of that list it answers with exactly
\* min(100, length - skip) items, item i of the answer being the conversion
\* of the item of the list at position skip + i.
C3_HitReturnsPage ==
    /\ [][HitRead => hnd'["catalog"].cached_movies =
                        movie_cache[HandlerKey("catalog")]]_vars
    /\ [][HitStep =>
            LET cached == hnd["catalog"].cached_movies
                skip == hnd["catalog"].skip
                metas == hnd'["catalog"].resp.metas
            IN (0 <= skip /\ skip < Len(cached)) =>
                  /\ hnd'["catalog"].resp.status = 200
                  /\ Len(metas) = Min(100, Len(cached) - skip)
                  /\ \A i \in 1..Len(metas) :
                        /\ metas[i].id = cached[skip + i].imdb_id
                        /\ metas[i].name = cached[skip + i].title]_vars

\* A read at a positive offset was answered with a full page of 100 items
\* out of a list that goes on past it.
C3_Witness ==
    /\ hnd["catalog"].ret = 518
    /\ hnd["catalog"].skip >= 1
    /\ Len(hnd["catalog"].resp.metas) = 100
    /\ HandlerKey("catalog") \in DOMAIN movie_cache
    /\ Len(movie_cache[HandlerKey("catalog")]) > hnd["catalog"].skip + 100
    /\ hnd["catalog"].resp.metas[1].id =
          movie_cache[HandlerKey("catalog")][hnd["catalog"].skip + 1].imdb_id

\* C4: a catalog read that finds its key cached with skip >= length of the
\* list answers with an empty result and status 200, and neither reading
\* the list nor answering changes the cache.
C4_SkipPastEndIsEmpty ==
    /\ [][HitRead => movie_cache' = movie_cache]_vars
    /\ [][HitStep =>
            (hnd["catalog"].skip >= Len(hnd["catalog"].cached_movies) =>
                /\ hnd'["catalog"].ret = 518
                /\ hnd'["catalog"].resp = Resp(200, <<>>, "")
                /\ movie_cache' = movie_cache)]_vars

\* skip = 150 against a cached list of 120 items was answered empty.
C4_Witness ==
    /\ hnd["catalog"].ret = 518
    /\ hnd["catalog"].skip = 150
    /\ HandlerKey("catalog") \in DOMAIN movie_cache
    /\ Len(movie_cache[HandlerKey("catalog")]) = 120
    /\ hnd["catalog"].resp = Resp(200, <<>>, "")

\* C8: a populate run requests at most 999 discovery pages; a run that has
\* ended has written a list to its slot whatever made it stop (a failed
\* request, a non-200 status, an empty page, an element that is no JSON
\* object, the end of the page range) and whatever lookups raised on the
\* way; every run that has started ends, alone or competing for the lock
\* with another run; and after a catalog read has missed a key, the key is
\* eventually in the cache.
C8_RunEndsAndWrites ==
    /\ [](\A t \in Threads : thr[t].requested <= 999)
    /\ [](\A t \in Threads :
            thr[t].pc = "done" => RunKey(t) \in DOMAIN movie_cache)
    /\ \A t \in Threads : (thr[t].pc = "page") ~> (thr[t].pc = "done")
    /\ (hnd["catalog"].ret = 505 /\ HandlerKey("catalog") \notin DOMAIN movie_cache)
          ~> (HandlerKey("catalog") \in DOMAIN movie_cache)

\* A run that met raising lookups was stopped by the page ceiling after 999
\* requests and has written its list of one record.
C8_Witness ==
    \E t \in Threads :
        /\ thr[t].pc = "done"
        /\ thr[t].stop = "ceiling"
        /\ thr[t].requested = 999
        /\ received[t].failed
        /\ RunKey(t) \in DOMAIN movie_cache
        /\ Len(movie_cache[RunKey(t)]) = 1

\* C12: a run that met no failure and was ended by the empty page that
\* followed n pages of records has requested exactly n + 1 pages, fewer than
\* the ceiling, and its slot holds the eligible records of pages 1..n in
\* page order and in-page order, every record whose identifier occurred
\* earlier dropped. (The first run: checked under SpecRuns.)
C12_CleanRunCachesAllPages ==
    \A t \in Threads :
        (/\ thr[t].pc = "done" /\ thr[t].stop = "empty"
         /\ ~received[t].failed /\ ~received[t].nondict)
          => /\ thr[t].requested = received[t].pages + 1
             /\ thr[t].requested < PageStop
             /\ RunKey(t) \in DOMAIN movie_cache
             /\ movie_cache[RunKey(t)] = FirstSeen(received[t].movies)

\* Two pages of 20 eligible records with 40 distinct identifiers, then an
\* empty page: three requests, and a list of 40 in the order received.
C12_Witness ==
    \E t \in Threads :
        /\ thr[t].pc = "done" /\ thr[t].stop = "empty"
        /\ received[t].pages = 2 /\ received[t].skipped = 0
        /\ thr[t].requested = 3
        /\ RunKey(t) \in DOMAIN movie_cache
        /\ Len(movie_cache[RunKey(t)]) = 40
        /\ movie_cache[RunKey(t)][1].imdb_id = "tt1"
        /\ movie_cache[RunKey(t)][20].imdb_id = "tt20"
        /\ movie_cache[RunKey(t)][21].imdb_id = "tt21"
        /\ movie_cache[RunKey(t)][40].imdb_id = "tt40"

\* The step in which refresh starts its thread, and the step in which it
\* answers.
RefreshStarts == hnd["refresh"].pc = "idle" /\ hnd'["refresh"].pc = "started"
RefreshAnswers == hnd["refresh"].pc = "started" /\ hnd'["refresh"].pc = "idle"

\* C13: a refresh request with a valid configuration, whatever the cache
\* holds, starts a thread that runs the populate run of the first configured
\* category with the other categories still to do; it answers 200 without
\* waiting for any run: once the thread is started the answer can always be
\* the next step, it is eventually given, and giving it moves no run and
\* leaves the cache alone; the thread goes on to start the run of every
\* category still to do; and a run that completes puts its own result in
\* place of whatever its slot held, leaving the other slots as they were.
C13_RefreshStartsRunsForAll ==
    /\ [][RefreshStarts =>
            /\ movie_cache' = movie_cache
            /\ \E t \in Threads :
                  /\ thr[t].pc \in {"idle", "done"}
                  /\ thr'[t] = StartRun(hnd'["refresh"].api_key,
                                        Head(hnd'["refresh"].languages),
                                        Tail(hnd'["refresh"].languages))
                  /\ \A u \in Threads \ {t} : thr'[u] = thr[u]]_vars
    /\ [](hnd["refresh"].pc = "started" => ENABLED RefreshReturn)
    /\ [][RefreshAnswers =>
            /\ hnd'["refresh"].ret = 541
            /\ hnd'["refresh"].resp.status = 200
            /\ movie_cache' = movie_cache
            /\ thr' = thr]_vars
    /\ (hnd["refresh"].pc = "started") ~> (hnd["refresh"].pc = "idle")
    /\ [][\A t \in Threads :
            (thr[t].pc = "locked" /\ thr'[t].pc # "locked")
              => movie_cache' = Put(movie_cache, RunKey(t),
                                    FirstSeen(received[t].movies))]_vars
    /\ \A t \in Threads : \A l \in {"ml", "ta"} :
          (thr[t].pc # "done" /\ thr[t].todo # <<>> /\ Head(thr[t].todo) = l)
            ~> (thr[t].pc = "page" /\ thr[t].language = l /\ thr[t].requested = 0)
    /\ \A t \in Threads : (thr[t].pc = "page") ~> (thr[t].pc = "done")

\* A refresh for two categories has answered while the slot of its first
\* category held a list and the slot of its second was absent; the run of
\* the first category has not requested a page yet.
C13_Witness ==
    /\ hnd["refresh"].pc = "idle"
    /\ hnd["refresh"].ret = 541
    /\ hnd["refresh"].languages = <<"ml", "ta">>
    /\ CacheKey("a", "ml") \in DOMAIN movie_cache
    /\ Len(movie_cache[CacheKey("a", "ml")]) = 1
    /\ CacheKey("a", "ta") \notin DOMAIN movie_cache
    /\ \E t \in Threads :
          /\ thr[t].pc = "page" /\ thr[t].requested = 0
          /\ thr[t].language = "ml" /\ thr[t].todo = <<"ta">>

\* C14: a catalog read or refresh request whose configuration cannot be
\* decoded, has no api_key or has an empty api_key is answered at once with
\* an error status, and no populate run is ever started with an empty
\* credential.
C14_BadCredentialRejected ==
    /\ \A h \in Handlers :
          (hnd[h].route # "" /\ hnd[h].api_key = "")
            => (hnd[h].pc = "idle" /\ hnd[h].resp.status = 400)
    /\ \A t \in Threads : thr[t].pc # "idle" => thr[t].api_key # ""

\* C15: distinct (credential, category) pairs have distinct cache slots: two
\* runs that write the same slot were started for the same pair, and a
\* catalog read is answered from a slot only if the run that wrote it was
\* started for the pair of the read.
C15_DistinctPairsDistinctSlots ==
    /\ \A t \in Threads, u \in Threads :
          (thr[t].pc # "idle" /\ thr[u].pc # "idle" /\ RunKey(t) = RunKey(u))
            => (thr[t].api_key = thr[u].api_key
                  /\ thr[t].language = thr[u].language)
    /\ \A t \in Threads :
          (/\ hnd["catalog"].ret = 518
           /\ thr[t].pc # "idle"
           /\ HandlerKey("catalog") = RunKey(t))
            => (hnd["catalog"].api_key = thr[t].api_key
                  /\ hnd["catalog"].language = thr[t].language)

\* C16: no partial result of a populate run is visible. The cache changes
\* only in the step in which a run whose page loop has ended assigns its
\* slot, and the value assigned is the complete list of that run: every
\* eligible record it was delivered, repeated identifiers dropped. A step in
\* which a run requests a page or looks a record up leaves the cache as it
\* was, and a catalog read, whatever the runs are doing, reads the list of
\* its slot and answers with items of the list it has read, or answers empty
\* if the slot is absent.
C16_NoPartialResultVisible ==
    /\ [][movie_cache' # movie_cache =>
            \E t \in Threads :
                /\ thr[t].pc = "locked" /\ thr'[t].pc = "done"
                /\ thr[t].stop # ""
                /\ received'[t] = received[t]
                /\ movie_cache' = Put(movie_cache, RunKey(t),
                                      FirstSeen(received[t].movies))]_vars
    /\ [][\A t \in Threads :
            (thr[t].pc \in {"page", "prov", "ext"} /\ thr'[t] # thr[t])
              => movie_cache' = movie_cache]_vars
    /\ [][HitRead => hnd'["catalog"].cached_movies =
                        movie_cache[HandlerKey("catalog")]]_vars
    /\ [][HitStep =>
            LET cached == hnd["catalog"].cached_movies
                metas == hnd'["catalog"].resp.metas
            IN /\ Len(metas) <= Len(cached)
               /\ \A i \in 1..Len(metas) :
                     metas[i].id = cached[hnd["catalog"].skip + i].imdb_id]_vars
    /\ [][(hnd["catalog"].pc = "started" /\ hnd'["catalog"].pc = "idle")
            => hnd'["catalog"].resp.metas = <<>>]_vars

\* A catalog read has been answered with the empty list a finished run
\* stored, while another run for the same key, in the middle of a page, has
\* collected a record it has not stored.
C16_Witness ==
    /\ hnd["catalog"].ret = 518
    /\ hnd["catalog"].resp.metas = <<>>
    /\ HandlerKey("catalog") \in DOMAIN movie_cache
    /\ movie_cache[HandlerKey("catalog")] = <<>>
    /\ \E t \in Threads :
          /\ thr[t].pc \in {"prov", "ext"}
          /\ Len(thr[t].final_movies) = 1
          /\ RunKey(t) = HandlerKey("catalog")

\* A request handler takes a step: a rejection, catalog taking the lock,
\* starting its thread, reading the list or answering, refresh starting its
\* thread or answering.
HandlerStep == hnd' # hnd

\* C17: only populate runs write the cache. Every step of a catalog read
\* (rejected, miss or hit) and of the refresh handler leaves every slot as it
\* was; a step that changes the cache is the step of one populate run, and it
\* changes or creates the slot of that run's key only.
C17_OnlyRunsWriteOwnSlot ==
    /\ [][HandlerStep => movie_cache' = movie_cache]_vars
    /\ [][movie_cache' # movie_cache =>
            \E t \in Threads :
                /\ thr[t].pc = "locked" /\ thr'[t].pc \in {"done", "returned"}
                /\ DOMAIN movie_cache' = DOMAIN movie_cache \cup {RunKey(t)}
                /\ \A k \in DOMAIN movie_cache \ {RunKey(t)} :
                      movie_cache'[k] = movie_cache[k]]_vars
    /\ [][\A t \in Threads :
            (InFlight(t) /\ thr'[t] # thr[t])
              => \A k \in DOMAIN movie_cache \ {RunKey(t)} :
                    k \in DOMAIN movie_cache' /\ movie_cache'[k] = movie_cache[k]]_vars

\* The run of category ta has written its slot, the slot of category ml
\* holds the list an earlier run wrote, and a catalog read of ml has been
\* answered from it.
C17_Witness ==
    /\ CacheKey("a", "ml") \in DOMAIN movie_cache
    /\ Len(movie_cache[CacheKey("a", "ml")]) = 1
    /\ CacheKey("a", "ta") \in DOMAIN movie_cache
    /\ movie_cache[CacheKey("a", "ta")] = <<>>
    /\ \E t \in Threads :
          thr[t].pc = "done" /\ thr[t].language = "ta" /\ thr[t].stop = "error"
    /\ hnd["catalog"].ret = 518
    /\ hnd["catalog"].language = "ml"
    /\ Len(hnd["catalog"].resp.metas) = 1
    /\ hnd["refresh"].ret = 541

\* C18: once a run whose first page request failed has stored its empty
\* list, the key stays populated with the empty list until a refresh is
\* requested: under catalog reads alone the slot of such a run holds the
\* empty list ever after.
C18_EmptyStaysUntilRefresh ==
    \A t \in Threads :
        (/\ thr[t].pc = "done"
         /\ thr[t].stop \in {"error", "status"}
         /\ thr[t].requested = 1)
          => movie_cache[RunKey(t)] = <<>>

\* C19: cache_lock is never held by a run that is requesting pages, looking
\* records up or waiting to store: a thread holds it only for its slot
\* assignment and the catalog handler only from its membership test to the
\* start of its thread and its empty answer, or to the reading of the list,
\* not while it paginates and converts; a held
\* lock is always released, and a catalog read that has taken the lock is
\* answered, whether or not the runs under way ever finish.
C19_LockHeldBrieflyAndReleased ==
    /\ [](\A t \in Threads :
            thr[t].pc # "locked" => cache_lock # HeldByThread(t))
    /\ [](cache_lock.kind = "thread" => thr[cache_lock.id].pc = "locked")
    /\ [](cache_lock.kind = "handler"
            => hnd["catalog"].pc \in {"locked", "started"})
    /\ [](hnd["catalog"].pc = "read" => cache_lock # HeldByHandler)
    /\ (cache_lock # Free) ~> (cache_lock = Free)
    /\ (hnd["catalog"].pc = "locked") ~> (hnd["catalog"].pc = "idle")

\* A catalog read has been answered from the cache and the lock is free
\* while one run has stored its list and another is looking a record up.
C19_Witness ==
    /\ cache_lock = Free
    /\ hnd["catalog"].pc = "idle"
    /\ hnd["catalog"].ret = 518
    /\ \E t \in Threads, u \in Threads :
          /\ thr[t].pc = "done"
          /\ thr[u].pc \in {"prov", "ext"}

\* C20: a run never replaces the result of a run for the same key that
\* started after it. (Checked under SpecOverlap, where the runs start in the
\* order of their thread slots: in the step in which the run of slot t
\* stores its list, no run of a higher slot for the same key has already
\* stored.)
C20_LatestStartedWins ==
    [][\A t \in Threads :
          (thr[t].pc = "locked" /\ thr'[t].pc # "locked")
            => ~\E u \in Threads :
                  /\ u > t
                  /\ thr[u].pc = "done"
                  /\ RunKey(u) = RunKey(t)]_vars

====
